---- MODULE Spec2Model ----
(***************************************************************************)
(* The JNI bridge of pfs-android (src/rust/src/lib.rs) over the pf8        *)
(* archive engine: cancellation tokens, extractArchiveWithCallback and its *)
(* progress callbacks, listArchive, and the create/extract entry points.   *)
(* The pf8 engine itself is an external crate; the parts of it the bridge  *)
(* relies on are modelled from the specification and marked as such.       *)
(***************************************************************************)
EXTENDS Integers, Sequences, FiniteSets, TLC

\* ------------------------------------------------------------ bounds
NumTokens == 2
MaxEntries == 2
MaxChunks == 1
MaxRuns == 2
MaxListEntries == 2
MaxPathLen == 2
MaxSize == 10
MaxPatterns == 2
MaxContentLen == 1

Tokens == 1..NumTokens
\* A jlong token handle; 0 means "no token" (lib.rs:471, 497, 555).
Handles == 0..NumTokens

\* ------------------------------------------------------------ messages
MsgCancelled == "Operation cancelled"
MsgExtract == "Failed to extract archive: "
MsgOpen == "Failed to open archive: "
MsgConvert == "Failed to convert JString: "
MsgGlobalRef == "Failed to create global ref: "
\* An exception thrown by a host callback method (onProgress, ...).
HostExc == "host exception"

VARIABLES
    \* the token heap
    tokenBox,      \* handle -> "none" | "alive" | "freed"   (the Box)
    arcCount,      \* handle -> strong count of the Arc<Mutex<bool>>
    flag,          \* handle -> "unalloc" | "clear" | "set" | "freed"
    \* the thread running extractArchiveWithCallback
    pc,            \* "idle" | "engine" | "cp_check" | "cp_call" | "ret" | "done" | "aborted"
    attached,      \* the handle whose Arc java_callback.cancelled is a clone of (0: its own)
    n,             \* entries of the open archive
    idx,           \* entry of the current / last checkpoint
    kind,          \* "none" | "start" | "progress" | "complete"
    chunks,        \* on_progress checkpoints issued for entry idx
    cbResult,      \* what the last sink call returned: "none" | "Ok" | "Cancelled"
    engineResult,  \* "none" | "Ok" | "Cancelled" | "Io"
    ret,           \* "none" | "true" | "false"    (the jboolean)
    pendingExc,    \* the exception pending in the calling thread, or "none"
    runs,          \* extractArchiveWithCallback calls so far
    \* history
    lastEv,        \* the latest sink call of this run: <<kind, idx, result>>
    prevEv,        \* the sink call before it
    lateCalls,     \* host methods invoked while the attached flag was already set
    cpAfterSet,    \* checkpoints of this run that began with the attached flag set
    completed,     \* entries whose on_file_complete returned Ok
    lateCancel,    \* handle -> cancelOperation set it after the run attached to it returned
    staleStart,    \* this run attached a handle with lateCancel
    \* listArchive
    lEntries,      \* the entry table of the archive: <<[path, size], ...>>
    lPc,           \* "off" | "ready" | "done" | "failed"
    lJson,         \* the characters of the returned string
    lExc,          \* the exception thrown, or "none"
    \* createArchive[WithPatterns], then extractArchive[WithPatterns]
    aTree,         \* the input directory: relative path -> file content
    aPc,           \* "off" | "ready" | "created" | "extracted" | "failed"
    aOp,           \* the bridge function called last
    aPats,         \* its patterns argument: [null, items]
    aArchive,      \* the container written: [entries, data]
    aOut,          \* the output directory: relative path -> file content
    aRet,          \* "none" | "true" | "false"
    aExc           \* the exception thrown, or "none"

tokenVars == <<tokenBox, arcCount, flag>>
runVars == <<pc, attached, n, idx, kind, chunks, cbResult, engineResult, ret, pendingExc, runs>>
histVars == <<lastEv, prevEv, lateCalls, cpAfterSet, completed, lateCancel, staleStart>>
listVars == <<lEntries, lPc, lJson, lExc>>
archVars == <<aTree, aPc, aOp, aPats, aArchive, aOut, aRet, aExc>>
vars == <<tokenVars, runVars, histVars, listVars, archVars>>

Running == {"engine", "cp_check", "cp_call", "ret"}

NoEvent == <<"none", 0, "none">>

\* ------------------------------------------------------------ initial values
TokenInit ==
    /\ tokenBox = [t \in Tokens |-> "none"]
    /\ arcCount = [t \in Tokens |-> 0]
    /\ flag = [t \in Tokens |-> "unalloc"]

RunInit ==
    /\ pc = "idle" /\ attached = 0 /\ n = 0 /\ idx = 0 /\ kind = "none"
    /\ chunks = 0 /\ cbResult = "none" /\ engineResult = "none"
    /\ ret = "none" /\ pendingExc = "none" /\ runs = 0
    /\ lastEv = NoEvent /\ prevEv = NoEvent /\ lateCalls = 0 /\ cpAfterSet = 0
    /\ completed = 0
    /\ lateCancel = [t \in Tokens |-> FALSE]
    /\ staleStart = FALSE

ListIdle == lEntries = <<>> /\ lPc = "off" /\ lJson = <<>> /\ lExc = "none"
NoPatterns == [null |-> TRUE, items |-> <<>>]
NoArchive == [entries |-> <<>>, data |-> <<>>]

ArchIdle ==
    /\ aTree = <<>> /\ aPc = "off" /\ aOp = "none" /\ aPats = NoPatterns
    /\ aArchive = NoArchive /\ aOut = <<>> /\ aRet = "none" /\ aExc = "none"

\* ------------------------------------------------------------ tokens
\* lib.rs:453-454  Box::new(Arc::new(Mutex::new(false))), Box::into_raw
createCancellationToken ==
    /\ pc # "aborted"
    /\ \E t \in Tokens :
        /\ tokenBox[t] = "none"
        /\ \A u \in 1..(t - 1) : tokenBox[u] # "none"   \* handles are fresh, in order
        /\ tokenBox' = [tokenBox EXCEPT ![t] = "alive"]
        /\ arcCount' = [arcCount EXCEPT ![t] = 1]
        /\ flag' = [flag EXCEPT ![t] = "clear"]
    /\ UNCHANGED <<runVars, histVars, listVars, archVars>>

\* The handle is one the host may pass: 0, or a token not yet freed
\* ("需要有效的token_handle", lib.rs:463, 489).
ValidHandle(h) == IF h = 0 THEN TRUE ELSE tokenBox[h] = "alive"

\* lib.rs:471-480
cancelOperation ==
    /\ pc # "aborted"
    /\ \E h \in Handles :
        /\ ValidHandle(h)
        /\ IF h = 0
             THEN UNCHANGED <<flag, lateCancel>>
             ELSE /\ flag' = [flag EXCEPT ![h] = "set"]
                  /\ lateCancel' = [lateCancel EXCEPT ![h] =
                        @ \/ (flag[h] = "clear" /\ attached = h /\ pc = "done")]
    /\ UNCHANGED <<tokenBox, arcCount, runVars, listVars, archVars>>
    /\ UNCHANGED <<lastEv, prevEv, lateCalls, cpAfterSet, completed, staleStart>>

\* Dropping one strong reference of handle h, counts being cnt: the
\* Mutex<bool> is released with the last one.
ArcAfterDrop(cnt, h) ==
    IF h = 0 THEN cnt ELSE [cnt EXCEPT ![h] = @ - 1]

FlagAfterDrop(cnt, h) ==
    IF h = 0 THEN flag
    ELSE [flag EXCEPT ![h] = IF cnt[h] - 1 <= 0 THEN "freed" ELSE @]

\* lib.rs:497-503  Box::from_raw, dropped
freeCancellationToken ==
    /\ pc # "aborted"
    /\ \E h \in Handles :
        /\ ValidHandle(h)
        /\ IF h = 0
             THEN UNCHANGED tokenVars
             ELSE /\ tokenBox' = [tokenBox EXCEPT ![h] = "freed"]
                  /\ arcCount' = ArcAfterDrop(arcCount, h)
                  /\ flag' = FlagAfterDrop(arcCount, h)
    /\ UNCHANGED <<runVars, listVars, archVars>>
    /\ UNCHANGED <<lastEv, prevEv, lateCalls, cpAfterSet, completed, staleStart>>
    \* a freed handle is never passed again: its history is dropped with it
    /\ lateCancel' = [t \in Tokens |-> lateCancel[t] /\ tokenBox'[t] = "alive"]

\* ------------------------------------------------------------ extractArchiveWithCallback
\* lib.rs:555-560  java_callback.cancelled = Arc::clone(token)
AttachTokenBorrow(h) == arcCount

AttachToken(h) ==
    IF h = 0 THEN arcCount ELSE [arcCount EXCEPT ![h] = @ + 1]

CanStart == pc \in {"idle", "done"} /\ runs < MaxRuns

\* A call that returns before the engine runs: false, with msg thrown.
FailEarly(h, msg) ==
    /\ pc' = "done" /\ attached' = h /\ n' = 0 /\ idx' = 0 /\ kind' = "none"
    /\ chunks' = 0 /\ cbResult' = "none" /\ engineResult' = "none"
    /\ ret' = "false" /\ pendingExc' = msg /\ runs' = runs + 1
    /\ lastEv' = NoEvent /\ prevEv' = NoEvent /\ lateCalls' = 0 /\ cpAfterSet' = 0
    /\ completed' = 0 /\ staleStart' = FALSE
    /\ UNCHANGED lateCancel

\* lib.rs:529-543  a path argument does not convert
extractConvertFail ==
    /\ CanStart
    /\ FailEarly(0, MsgConvert)
    /\ UNCHANGED <<tokenVars, listVars, archVars>>

\* lib.rs:546-552  JavaProgressCallback::new fails
extractCallbackFail ==
    /\ CanStart
    /\ FailEarly(0, MsgGlobalRef)
    /\ UNCHANGED <<tokenVars, listVars, archVars>>

\* lib.rs:555-563, 577-580  the token is attached, Pf8Reader::open fails,
\* java_callback is dropped on return
extractOpenFail ==
    /\ CanStart
    /\ \E h \in Handles :
        /\ ValidHandle(h)
        /\ FailEarly(h, MsgOpen)
        /\ arcCount' = ArcAfterDrop(AttachToken(h), h)
        /\ flag' = FlagAfterDrop(AttachToken(h), h)
    /\ UNCHANGED <<tokenBox, listVars, archVars>>

\* lib.rs:529-565  arguments convert, the token is attached, the archive opens
\* with N entries and extract_all_with_progress is entered
extractBegin ==
    /\ CanStart
    /\ \E h \in Handles, N \in 0..MaxEntries :
        /\ ValidHandle(h)
        /\ pc' = "engine" /\ attached' = h /\ n' = N
        /\ arcCount' = AttachToken(h)
        /\ staleStart' = (IF h = 0 THEN FALSE ELSE lateCancel[h])
    /\ idx' = 0 /\ kind' = "none" /\ chunks' = 0 /\ cbResult' = "none"
    /\ engineResult' = "none" /\ ret' = "none" /\ pendingExc' = "none"
    /\ runs' = runs + 1
    /\ lastEv' = NoEvent /\ prevEv' = NoEvent /\ lateCalls' = 0 /\ cpAfterSet' = 0
    /\ completed' = 0
    /\ UNCHANGED <<tokenBox, flag, lateCancel, listVars, archVars>>

\* ---- the engine's extract_all_with_progress (pf8 crate)
\* The sink calls that may come next: on_file_start before an entry,
\* on_progress at chunk boundaries, on_file_complete after it.
NextCheckpoints ==
    IF kind = "none"
      THEN IF n > 0 THEN {<<"start", 1, 0>>} ELSE {}
    ELSE IF kind \in {"start", "progress"}
      THEN {<<"complete", idx, chunks>>} \cup
           (IF chunks < MaxChunks THEN {<<"progress", idx, chunks + 1>>} ELSE {})
    ELSE IF idx < n THEN {<<"start", idx + 1, 0>>} ELSE {}

EngineCallNoStop ==
    /\ pc = "engine"
    /\ \E c \in NextCheckpoints :
        /\ kind' = c[1] /\ idx' = c[2] /\ chunks' = c[3]
    /\ pc' = "cp_check" /\ cbResult' = "none"
    /\ UNCHANGED <<attached, n, engineResult, ret, pendingExc, runs>>
    /\ UNCHANGED <<tokenVars, histVars, listVars, archVars>>

EngineCall ==
    /\ pc = "engine" /\ cbResult # "Cancelled"
    /\ \E c \in NextCheckpoints :
        /\ kind' = c[1] /\ idx' = c[2] /\ chunks' = c[3]
    /\ pc' = "cp_check" /\ cbResult' = "none"
    /\ UNCHANGED <<attached, n, engineResult, ret, pendingExc, runs>>
    /\ UNCHANGED <<tokenVars, histVars, listVars, archVars>>

EngineEnd(res) ==
    /\ engineResult' = res /\ pc' = "ret"
    /\ UNCHANGED <<attached, n, idx, kind, chunks, cbResult, ret, pendingExc, runs>>
    /\ UNCHANGED <<tokenVars, histVars, listVars, archVars>>

\* every entry is extracted
EngineFinish ==
    /\ pc = "engine" /\ cbResult # "Cancelled"
    /\ NextCheckpoints = {}
    /\ EngineEnd("Ok")

\* a sink call returned Err(Cancelled): the operation stops and reports it
EnginePropagate ==
    /\ pc = "engine" /\ cbResult = "Cancelled"
    /\ EngineEnd("Cancelled")

\* a read or write fails
EngineIoError ==
    /\ pc = "engine" /\ cbResult # "Cancelled"
    /\ EngineEnd("Io")

\* ---- impl pf8::ProgressCallback for JavaProgressCallback
CheckCancelledNever(h) == FALSE

CheckCancelledAny(h) == \E t \in Tokens : flag[t] = "set"

\* lib.rs:343-347, 380-384, 411-415  self.cancelled.lock(), *cancelled
CheckCancelled(h) == IF h = 0 THEN FALSE ELSE flag[h] = "set"

\* The flag java_callback.cancelled refers to is set (whatever the code reads).
FlagSet == IF attached = 0 THEN FALSE ELSE flag[attached] = "set"

\* The first half of a sink method: the cancellation check.
CheckStep(k) ==
    /\ pc = "cp_check" /\ kind = k
    /\ cpAfterSet' = cpAfterSet + (IF FlagSet THEN 1 ELSE 0)
    /\ IF CheckCancelled(attached)
         THEN /\ cbResult' = "Cancelled" /\ pc' = "engine"
              /\ lastEv' = <<k, idx, "Cancelled">>
         ELSE /\ cbResult' = "none" /\ pc' = "cp_call"
              /\ lastEv' = <<k, idx, "Ok">>
    /\ prevEv' = lastEv
    /\ UNCHANGED <<attached, n, idx, kind, chunks, engineResult, ret, pendingExc, runs>>
    /\ UNCHANGED <<lateCalls, completed, lateCancel, staleStart>>
    /\ UNCHANGED <<tokenVars, listVars, archVars>>

\* The sink method returns Ok(()).
ReturnOk(k) ==
    /\ cbResult' = "Ok" /\ pc' = "engine"
    /\ completed' = completed + (IF k = "complete" THEN 1 ELSE 0)

\* env.call_method(callback_obj, ...): the host method runs, and may throw; the
\* result is dropped (let _ =), so a thrown exception stays pending.
CallHost(k, thrown) ==
    /\ lateCalls' = lateCalls + (IF FlagSet THEN 1 ELSE 0)
    /\ pendingExc' = thrown
    /\ ReturnOk(k)
    /\ UNCHANGED ret

\* The second half of a sink method: attach the thread, build the string
\* argument, call the host method.  With an exception of an earlier callback
\* still pending, these JNI calls are undefined: new_string fails twice and
\* unwrap() panics out of the extern "system" function (the process aborts),
\* or the runtime lets the call through.
CallStep(k) ==
    /\ pc = "cp_call" /\ kind = k
    /\ \/ /\ ReturnOk(k)                       \* attach_current_thread fails
          /\ UNCHANGED <<lateCalls, pendingExc, ret>>
       \/ /\ pendingExc = "none"
          /\ \E thrown \in {"none", HostExc} : CallHost(k, thrown)
       \/ /\ pendingExc # "none"
          /\ CallHost(k, pendingExc)
       \/ /\ pendingExc # "none"
          /\ pc' = "aborted"
          /\ UNCHANGED <<cbResult, completed, lateCalls, pendingExc, ret>>
    /\ UNCHANGED <<attached, n, idx, kind, chunks, engineResult, runs>>
    /\ UNCHANGED <<lastEv, prevEv, cpAfterSet, lateCancel, staleStart>>
    /\ UNCHANGED <<tokenVars, listVars, archVars>>

\* lib.rs:378-407
on_file_start == CheckStep("start") \/ CallStep("start")

\* on_progress without its cancellation check
on_progress_unchecked ==
    \/ /\ pc = "cp_check" /\ kind = "progress"
       /\ cpAfterSet' = cpAfterSet + (IF FlagSet THEN 1 ELSE 0)
       /\ cbResult' = "none" /\ pc' = "cp_call"
       /\ lastEv' = <<"progress", idx, "Ok">> /\ prevEv' = lastEv
       /\ UNCHANGED <<attached, n, idx, kind, chunks, engineResult, ret, pendingExc, runs>>
       /\ UNCHANGED <<lateCalls, completed, lateCancel, staleStart>>
       /\ UNCHANGED <<tokenVars, listVars, archVars>>
    \/ CallStep("progress")

\* lib.rs:341-376
on_progress == CheckStep("progress") \/ CallStep("progress")

\* lib.rs:409-437
on_file_complete == CheckStep("complete") \/ CallStep("complete")

\* lib.rs:14-16  env.throw_new, its result dropped.  With an exception already
\* pending, find_class fails and nothing is thrown (the pending one stays), or
\* the runtime aborts on the JNI call.
throw_exception(cur, msg) ==
    IF cur = "none" THEN {msg} ELSE {cur, "ABORT"}

\* lib.rs:565-575  the engine's result becomes the jboolean and the exception;
\* java_callback (and its Arc clone) is dropped on return
extractReturn ==
    /\ pc = "ret"
    /\ IF engineResult = "Ok"
         THEN /\ ret' = "true" /\ pc' = "done" /\ UNCHANGED pendingExc
         ELSE \E e \in throw_exception(pendingExc,
                        IF engineResult = "Cancelled" THEN MsgCancelled ELSE MsgExtract) :
                IF e = "ABORT"
                  THEN /\ pc' = "aborted" /\ UNCHANGED <<ret, pendingExc>>
                  ELSE /\ pendingExc' = e /\ ret' = "false" /\ pc' = "done"
    /\ arcCount' = ArcAfterDrop(arcCount, attached)
    /\ flag' = FlagAfterDrop(arcCount, attached)
    /\ UNCHANGED <<attached, n, idx, kind, chunks, cbResult, engineResult, runs>>
    /\ UNCHANGED <<lastEv, prevEv, lateCalls, cpAfterSet, completed, lateCancel, staleStart>>
    /\ UNCHANGED <<tokenBox, listVars, archVars>>

Init == TokenInit /\ RunInit /\ ListIdle /\ ArchIdle

Next ==
    \/ createCancellationToken
    \/ cancelOperation
    \/ freeCancellationToken
    \/ extractConvertFail
    \/ extractCallbackFail
    \/ extractOpenFail
    \/ extractBegin
    \/ EngineCall
    \/ EngineFinish
    \/ EnginePropagate
    \/ EngineIoError
    \/ on_file_start
    \/ on_progress
    \/ on_file_complete
    \/ extractReturn

Spec == Init /\ [][Next]_vars

\* ------------------------------------------------------------ listArchive
\* Characters are one-character strings; a text is a sequence of them.
DQ == "\""
BS == "\\"
PathChars == {"a", DQ, BS}

RECURSIVE Texts(_)
\* every text over PathChars of length 1..k
Texts(k) ==
    IF k = 0 THEN {}
    ELSE LET shorter == Texts(k - 1)
         IN  {<<c>> : c \in PathChars} \cup shorter
             \cup {Append(t, c) : t \in shorter, c \in PathChars}

ListPaths == Texts(MaxPathLen)
ListEntrySet == [path : ListPaths, size : 0..MaxSize]

RECURSIVE Dec(_)
\* format!("{}", n) for an unsigned integer: its decimal digits
Dec(m) ==
    LET d == <<"0", "1", "2", "3", "4", "5", "6", "7", "8", "9">>[(m % 10) + 1]
    IN  IF m < 10 THEN <<d>> ELSE Append(Dec(m \div 10), d)

\* lib.rs:265-270  format!("{{\"name\":\"{}\",\"size\":{}}}", path_str, entry.size())
FormatEntry(e) ==
    <<"{", DQ, "n", "a", "m", "e", DQ, ":", DQ>> \o e.path
    \o <<DQ, ",", DQ, "s", "i", "z", "e", DQ, ":">> \o Dec(e.size) \o <<"}">>

RECURSIVE JoinComma(_)
\* lib.rs:272-274  entries.join(",")
JoinComma(parts) ==
    IF parts = <<>> THEN <<>>
    ELSE IF Len(parts) = 1 THEN parts[1]
    ELSE parts[1] \o <<",">> \o JoinComma(Tail(parts))

\* lib.rs:263-274  the JSON text of the entry table
ListJson(entries) ==
    <<"[">> \o JoinComma([i \in 1..Len(entries) |-> FormatEntry(entries[i])]) \o <<"]">>

\* ---- the host's reading of the returned text, as JSON (RFC 8259)
Bad == [ok |-> FALSE]

RECURSIVE ScanString(_, _, _)
\* t[i..] after an opening quote: the decoded string and the place after the
\* closing quote.  A backslash escapes the character after it.
ScanString(t, i, acc) ==
    IF i > Len(t) THEN Bad
    ELSE IF t[i] = DQ THEN [ok |-> TRUE, val |-> acc, next |-> i + 1]
    ELSE IF t[i] = BS
      THEN IF i + 1 <= Len(t) /\ t[i + 1] \in {DQ, BS}
             THEN ScanString(t, i + 2, Append(acc, t[i + 1]))
             ELSE Bad
    ELSE ScanString(t, i + 1, Append(acc, t[i]))

DigitVal(c) ==
    CASE c = "0" -> 0 [] c = "1" -> 1 [] c = "2" -> 2 [] c = "3" -> 3 [] c = "4" -> 4
      [] c = "5" -> 5 [] c = "6" -> 6 [] c = "7" -> 7 [] c = "8" -> 8 [] c = "9" -> 9
      [] OTHER -> -1

RECURSIVE ScanNumber(_, _, _, _)
ScanNumber(t, i, acc, seen) ==
    IF i <= Len(t) /\ DigitVal(t[i]) >= 0
      THEN ScanNumber(t, i + 1, acc * 10 + DigitVal(t[i]), TRUE)
    ELSE IF seen THEN [ok |-> TRUE, val |-> acc, next |-> i]
    ELSE Bad

\* lit is at t[i..]
Expect(t, i, lit) ==
    /\ i + Len(lit) - 1 <= Len(t)
    /\ SubSeq(t, i, i + Len(lit) - 1) = lit

\* One object {"name": <string>, "size": <number>} at t[i..].
ParseObject(t, i) ==
    IF ~Expect(t, i, <<"{", DQ, "n", "a", "m", "e", DQ, ":", DQ>>) THEN Bad
    ELSE LET nm == ScanString(t, i + 9, <<>>)
         IN  IF ~nm.ok THEN Bad
             ELSE IF ~Expect(t, nm.next, <<",", DQ, "s", "i", "z", "e", DQ, ":">>) THEN Bad
             ELSE LET sz == ScanNumber(t, nm.next + 8, 0, FALSE)
                  IN  IF ~sz.ok THEN Bad
                      ELSE IF ~Expect(t, sz.next, <<"}">>) THEN Bad
                      ELSE [ok |-> TRUE,
                            val |-> [path |-> nm.val, size |-> sz.val],
                            next |-> sz.next + 1]

RECURSIVE ParseObjects(_, _, _)
\* the objects of an array from t[i..], up to and with the closing bracket
ParseObjects(t, i, acc) ==
    LET o == ParseObject(t, i)
    IN  IF ~o.ok THEN Bad
        ELSE IF Expect(t, o.next, <<"]">>) /\ o.next = Len(t)
          THEN [ok |-> TRUE, val |-> Append(acc, o.val)]
        ELSE IF Expect(t, o.next, <<",">>)
          THEN ParseObjects(t, o.next + 1, Append(acc, o.val))
        ELSE Bad

ParseJson(t) ==
    IF t = <<"[", "]">> THEN [ok |-> TRUE, val |-> <<>>]
    ELSE IF Expect(t, 1, <<"[">>) THEN ParseObjects(t, 2, <<>>)
    ELSE Bad

\* Archives that open: entry paths are unique (the entry table's invariant).
ListArchives ==
    {es \in UNION {[1..k -> ListEntrySet] : k \in 0..MaxListEntries} :
        \A i, j \in 1..Len(es) : es[i].path = es[j].path => i = j}

ListInit ==
    /\ lEntries \in ListArchives
    /\ lPc = "ready" /\ lJson = <<>> /\ lExc = "none"

\* lib.rs:252-258
listArchiveConvertFail ==
    /\ lPc = "ready"
    /\ lPc' = "failed" /\ lExc' = MsgConvert
    /\ UNCHANGED <<lEntries, lJson>>
    /\ UNCHANGED <<tokenVars, runVars, histVars, archVars>>

\* lib.rs:261, 284-287
listArchiveOpenFail ==
    /\ lPc = "ready"
    /\ lPc' = "failed" /\ lExc' = "Failed to read archive: "
    /\ UNCHANGED <<lEntries, lJson>>
    /\ UNCHANGED <<tokenVars, runVars, histVars, archVars>>

\* lib.rs:261-277
listArchive ==
    /\ lPc = "ready"
    /\ lPc' = "done" /\ lJson' = ListJson(lEntries)
    /\ UNCHANGED <<lEntries, lExc>>
    /\ UNCHANGED <<tokenVars, runVars, histVars, archVars>>

InitList == TokenInit /\ RunInit /\ ListInit /\ ArchIdle

NextList == listArchive \/ listArchiveOpenFail \/ listArchiveConvertFail

SpecList == InitList /\ [][NextList]_vars

\* C5: for an archive that opens, the text listArchive returns is a JSON array
\* with one object per entry, in table order, whose "name" is the entry's path
\* and whose "size" is the entry's size, whatever characters the path holds.
C5_ListingIsJsonOfEntries ==
    lPc = "done" =>
        LET parsed == ParseJson(lJson)
        IN  parsed.ok /\ parsed.val = lEntries

\* ------------------------------------------------------------ create / extract
\* Relative paths, as characters, in the writer's sorted order.
PathOrder == << <<"a", ".", "t">>, <<"b", ".", "x">>, <<"d", "/", "a", ".", "t">> >>
Paths == {PathOrder[i] : i \in 1..Len(PathOrder)}

\* Glob patterns, as tokens: "*", "**", "?" or a literal character.
PatSet == { <<"*", ".", "t">>, <<"**">>, <<"?", ".", "x">>, <<"d", "/", "*">> }

\* The JObjectArray argument: null, or an array of strings.
PatArgs ==
    {NoPatterns} \cup
    {[null |-> FALSE, items |-> ps] :
        ps \in UNION {[1..k -> PatSet] : k \in 0..MaxPatterns}}

RECURSIVE Contents(_)
\* file contents of at most k bytes
Contents(k) ==
    IF k = 0 THEN {<<>>}
    ELSE Contents(k - 1) \cup {Append(c, b) : c \in Contents(k - 1), b \in {0, 1}}

Trees == UNION {[S -> Contents(MaxContentLen)] : S \in SUBSET Paths}
PatTrees == {[p \in S |-> <<1>>] : S \in SUBSET Paths}

\* ---- the engine (pf8 crate): pattern matcher
RECURSIVE GlobMatch(_, _)
\* "*" any run without "/", "**" any run, "?" one character, else literal
GlobMatch(pat, path) ==
    IF pat = <<>> THEN path = <<>>
    ELSE IF Head(pat) = "**"
      THEN \E k \in 0..Len(path) :
              GlobMatch(Tail(pat), SubSeq(path, k + 1, Len(path)))
    ELSE IF Head(pat) = "*"
      THEN \E k \in 0..Len(path) :
              /\ \A j \in 1..k : path[j] # "/"
              /\ GlobMatch(Tail(pat), SubSeq(path, k + 1, Len(path)))
    ELSE IF path = <<>> THEN FALSE
    ELSE IF Head(pat) = "?"
      THEN path[1] # "/" /\ GlobMatch(Tail(pat), Tail(path))
    ELSE Head(pat) = path[1] /\ GlobMatch(Tail(pat), Tail(path))

\* a path is included iff it matches at least one pattern; [] matches nothing
Included(paths, pats) ==
    {p \in paths : \E i \in 1..Len(pats) : GlobMatch(pats[i], p)}

\* ---- the engine: entry table and container writer
\* every offset is 0
BuildTableNoOffsets(ps, tree) ==
    [i \in 1..Len(ps) |-> [path |-> ps[i], size |-> Len(tree[ps[i]]), offset |-> 0]]

\* offsets are the sums of the preceding entries' sizes, in insertion order
BuildTable(ps, tree) ==
    LET off[i \in 1..Len(ps)] ==
            IF i = 1 THEN 0 ELSE off[i - 1] + Len(tree[ps[i - 1]])
    IN  [i \in 1..Len(ps) |-> [path |-> ps[i], size |-> Len(tree[ps[i]]), offset |-> off[i]]]

RECURSIVE Concat(_, _)
\* the data region: the payloads, contiguous, in table order
Concat(ps, tree) ==
    IF ps = <<>> THEN <<>> ELSE tree[Head(ps)] \o Concat(Tail(ps), tree)

\* the files of tree among keep, walked and sorted, packed into a container
WriteContainer(tree, keep) ==
    LET ps == SelectSeq(PathOrder, LAMBDA p : p \in DOMAIN tree /\ p \in keep)
    IN  [entries |-> BuildTable(ps, tree), data |-> Concat(ps, tree)]

create_from_dir(tree) == WriteContainer(tree, DOMAIN tree)

create_from_dir_with_patterns(tree, pats) ==
    WriteContainer(tree, Included(DOMAIN tree, pats))

EntryPaths(ar) == {ar.entries[i].path : i \in 1..Len(ar.entries)}

\* ---- the engine: container reader
\* each kept entry's size bytes from its offset, written at its path
ReadContainer(ar, keep) ==
    [p \in EntryPaths(ar) \cap keep |->
        LET e == ar.entries[CHOOSE i \in 1..Len(ar.entries) : ar.entries[i].path = p]
        IN  SubSeq(ar.data, e.offset + 1, e.offset + e.size)]

extract(ar) == ReadContainer(ar, EntryPaths(ar))

extract_with_patterns(ar, pats) == ReadContainer(ar, Included(EntryPaths(ar), pats))

\* the structural invariants open() validates
ValidContainer(ar) ==
    /\ \A i \in 1..Len(ar.entries) : ar.entries[i].offset + ar.entries[i].size <= Len(ar.data)
    /\ \A i, j \in 1..Len(ar.entries) : ar.entries[i].path = ar.entries[j].path => i = j

\* ---- the bridge
MsgCreate == "Failed to create archive: "
MsgCreatePat == "Failed to create archive with patterns: "
MsgExtractPat == "Failed to extract archive with patterns: "
MsgArrayLength == "Failed to get array length: "

\* lib.rs:94-115, 204-225  the JObjectArray becomes a Vec<String>;
\* get_array_length fails on a null array
PatternsVec(arg) ==
    IF arg.null THEN [ok |-> FALSE, msg |-> MsgArrayLength]
    ELSE [ok |-> TRUE, vec |-> arg.items]

\* The call returns false with msg thrown.
Throws(op, arg, msg) ==
    /\ aPc' = "failed" /\ aOp' = op /\ aPats' = arg
    /\ aRet' = "false" /\ aExc' = msg
    /\ UNCHANGED <<aTree, aArchive, aOut>>

Created(op, arg, ar) ==
    /\ aPc' = "created" /\ aOp' = op /\ aPats' = arg
    /\ aArchive' = ar /\ aRet' = "true" /\ aExc' = "none"
    /\ UNCHANGED <<aTree, aOut>>

Extracted(op, arg, out) ==
    /\ aPc' = "extracted" /\ aOp' = op /\ aPats' = arg
    /\ aOut' = out /\ aRet' = "true" /\ aExc' = "none"
    /\ UNCHANGED <<aTree, aArchive>>

\* lib.rs:28-57
createArchive ==
    /\ aPc = "ready"
    /\ \/ Created("createArchive", NoPatterns, create_from_dir(aTree))
       \/ \E msg \in {MsgConvert, MsgCreate} : Throws("createArchive", NoPatterns, msg)
    /\ UNCHANGED <<tokenVars, runVars, histVars, listVars>>

\* lib.rs:70-126
createArchiveWithPatterns ==
    /\ aPc = "ready"
    /\ \E arg \in PatArgs :
        LET v == PatternsVec(arg)
        IN  \/ /\ ~v.ok
               /\ Throws("createArchiveWithPatterns", arg, v.msg)
            \/ /\ v.ok
               /\ Created("createArchiveWithPatterns", arg,
                          create_from_dir_with_patterns(aTree, v.vec))
            \/ \E msg \in {MsgConvert, MsgCreatePat} :
                    Throws("createArchiveWithPatterns", arg, msg)
    /\ UNCHANGED <<tokenVars, runVars, histVars, listVars>>

\* lib.rs:138-167
extractArchive ==
    /\ aPc = "created"
    /\ \/ Extracted("extractArchive", NoPatterns, extract(aArchive))
       \/ \E msg \in {MsgConvert, MsgExtract} : Throws("extractArchive", NoPatterns, msg)
    /\ UNCHANGED <<tokenVars, runVars, histVars, listVars>>

\* lib.rs:180-236
extractArchiveWithPatterns ==
    /\ aPc = "created"
    /\ \E arg \in PatArgs :
        LET v == PatternsVec(arg)
        IN  \/ /\ ~v.ok
               /\ Throws("extractArchiveWithPatterns", arg, v.msg)
            \/ /\ v.ok
               /\ Extracted("extractArchiveWithPatterns", arg,
                            extract_with_patterns(aArchive, v.vec))
            \/ \E msg \in {MsgConvert, MsgExtractPat} :
                    Throws("extractArchiveWithPatterns", arg, msg)
    /\ UNCHANGED <<tokenVars, runVars, histVars, listVars>>

ArchInit(trees) ==
    /\ aTree \in trees
    /\ aPc = "ready" /\ aOp = "none" /\ aPats = NoPatterns
    /\ aArchive = NoArchive /\ aOut = <<>> /\ aRet = "none" /\ aExc = "none"

InitPat == TokenInit /\ RunInit /\ ListIdle /\ ArchInit(PatTrees)

NextPat ==
    \/ createArchive
    \/ createArchiveWithPatterns
    \/ extractArchive
    \/ extractArchiveWithPatterns

SpecPat == InitPat /\ [][NextPat]_vars

InitRT == TokenInit /\ RunInit /\ ListIdle /\ ArchInit(Trees)

NextRT == createArchive \/ extractArchive

SpecRT == InitRT /\ [][NextRT]_vars

\* The engine itself failed, or an argument did not convert.
EngineOrArgFailed == aExc \in {MsgConvert, MsgCreate, MsgCreatePat, MsgExtract, MsgExtractPat}

\* What the claim has included: everything when the pattern list is omitted,
\* else the paths that match at least one pattern.
Wanted(paths, arg) ==
    IF arg.null THEN paths ELSE Included(paths, arg.items)

\* C6: on create and on extract a path is included iff it matches at least one
\* supplied pattern; an empty list includes nothing (on create: a valid, empty
\* container, no error); an omitted list includes everything, as
\* createArchive / extractArchive do.
C6_PatternFiltering ==
    /\ (aOp \in {"createArchive", "createArchiveWithPatterns"} /\ ~EngineOrArgFailed) =>
        /\ aRet = "true" /\ aPc = "created"
        /\ ValidContainer(aArchive)
        /\ EntryPaths(aArchive) = Wanted(DOMAIN aTree, aPats)
    /\ (aOp \in {"extractArchive", "extractArchiveWithPatterns"} /\ ~EngineOrArgFailed) =>
        /\ aRet = "true" /\ aPc = "extracted"
        /\ DOMAIN aOut = Wanted(EntryPaths(aArchive), aPats)

Triples(tree) == {<<p, tree[p], Len(tree[p])>> : p \in DOMAIN tree}

\* C7: createArchive of a tree D, then extractArchive into a fresh directory,
\* gives a tree with the same (relative path, content, size) triples as D; the
\* sizes in the entry table are the files' lengths.
C7_RoundTrip ==
    aPc = "extracted" =>
        /\ Triples(aOut) = Triples(aTree)
        /\ \A i \in 1..Len(aArchive.entries) :
              aArchive.entries[i].size = Len(aTree[aArchive.entries[i].path])

\* A tree with two files of the same size and different contents, and a third
\* one, empty, has made the round trip.
C7_Witness ==
    /\ aPc = "extracted" /\ aRet = "true"
    /\ DOMAIN aOut = Paths
    /\ \E p, q \in Paths : p # q /\ Len(aOut[p]) = Len(aOut[q]) /\ aOut[p] # aOut[q]
    /\ \E p \in Paths : aOut[p] = <<>>

\* ------------------------------------------------------------ properties
\* C1: with a token attached, the first checkpoint the extraction reaches after
\* cancelOperation has set the flag returns Cancelled; no checkpoint follows it,
\* the engine ends with Error::Cancelled, the call returns false, and fewer than
\* all N entries have completed.
C1_CancelStopsAtNextCheckpoint ==
    /\ cpAfterSet <= 1
    /\ cpAfterSet = 1 =>
        /\ cbResult = "Cancelled"
        /\ lastEv[3] = "Cancelled"
        /\ pc \in {"engine", "ret", "done", "aborted"}
        /\ pc # "engine" => engineResult = "Cancelled"
        /\ pc = "done" => ret = "false"
        /\ completed < n

\* The flag was set while the extraction was running, after its first entry
\* completed, and the call has returned as cancelled.
C1_Witness ==
    /\ pc = "done" /\ n = 2 /\ completed = 1 /\ cpAfterSet = 1
    /\ engineResult = "Cancelled" /\ ret = "false" /\ pendingExc = MsgCancelled

\* C2: a run whose arguments marshal (lib.rs:562-581) ends as exactly one of
\* success (true), cancelled (false, the exception message is exactly
\* "Operation cancelled") or failure (false, the message starts "Failed to
\* extract archive: " or "Failed to open archive: "); cancelled is reported iff
\* the engine ended with Error::Cancelled.
C2_ThreeOutcomes ==
    (pc = "done" /\ pendingExc \notin {MsgConvert, MsgGlobalRef}) =>
        /\ \/ ret = "true"
           \/ ret = "false" /\ pendingExc = MsgCancelled
           \/ ret = "false" /\ pendingExc \in {MsgExtract, MsgOpen}
        /\ (ret = "false" /\ pendingExc = MsgCancelled) <=> (engineResult = "Cancelled")

\* C3 (as claimed): setting a token after the operation it was attached to has
\* completed changes no completed result, and no operation started afterwards,
\* also one given the same handle, is cancelled because of it.
C3_LateCancelNoEffect ==
    staleStart => engineResult # "Cancelled"

\* C3 (amended): a completed call's result never changes; a run ends Cancelled
\* only through a checkpoint that found the flag of its own attached token set,
\* so a run attached to another token or to none is not cancelled by it; a run
\* given the handle that was set late is cancelled at its first checkpoint.
C3_LateCancelOnlySameHandle ==
    /\ [][(pc = "done" /\ runs' = runs) =>
            (pc' = "done" /\ ret' = ret /\ pendingExc' = pendingExc
             /\ engineResult' = engineResult)]_vars
    /\ [](engineResult = "Cancelled" => (attached # 0 /\ cpAfterSet = 1))
    /\ [](cbResult = "Cancelled" => (attached # 0 /\ cpAfterSet = 1))
    /\ [](staleStart =>
            /\ prevEv = NoEvent
            /\ lastEv # NoEvent => lastEv[3] = "Cancelled")

\* A token was set after its operation completed, and a later run attached to
\* another token extracted every entry.
C3_Witness ==
    /\ pc = "done" /\ engineResult = "Ok" /\ n >= 1 /\ attached # 0
    /\ \E t \in Tokens : t # attached /\ lateCancel[t]

\* C4: extractArchiveWithCallback returns true with no exception pending, or
\* false with an exception raised, also when a host callback method throws
\* during the run.
C4_TrueOrThrown ==
    pc = "done" =>
        \/ ret = "true" /\ pendingExc = "none"
        \/ ret = "false" /\ pendingExc # "none"

\* b may be the sink call directly after a.
Follows(a, b) ==
    /\ a[3] = "Ok"
    /\ \/ a[1] \in {"start", "progress"} /\ b[1] \in {"progress", "complete"} /\ b[2] = a[2]
       \/ a[1] = "complete" /\ b[1] = "start" /\ b[2] = a[2] + 1

\* C8: entries are processed in table order; per entry on_file_start comes
\* first, then its on_progress calls, then on_file_complete; no call of a later
\* entry precedes the completion of an earlier one; after a call that yields
\* Cancelled there is no further call.
C8_CheckpointOrder ==
    lastEv # NoEvent =>
        /\ lastEv[2] \in 1..n
        /\ IF prevEv = NoEvent
             THEN lastEv[1] = "start" /\ lastEv[2] = 1
             ELSE Follows(prevEv, lastEv)

\* The second entry was started and the run was cancelled inside it.
C8_Witness ==
    /\ pc = "done" /\ engineResult = "Cancelled" /\ completed = 1
    /\ lastEv = <<"complete", 2, "Cancelled">> /\ prevEv = <<"progress", 2, "Ok">>

\* C9: a checkpoint that finds the flag set invokes no host method, and at most
\* one host method is invoked after cancelOperation has set the flag.
C9_AtMostOneLateCallback ==
    /\ lateCalls <= 1
    /\ pc = "cp_call" => (cpAfterSet = 0 /\ lastEv[3] = "Ok")

\* cancelOperation ran between a checkpoint's check and its host call.
C9_Witness ==
    /\ pc = "done" /\ lateCalls = 1 /\ engineResult = "Cancelled" /\ completed >= 1

Holding(t) == attached = t /\ pc \in Running

\* C10: while an extraction holds an attached token its flag is allocated and
\* its value is one the code wrote, whether or not the handle has been freed;
\* freeing the handle changes neither the flag nor the run; the storage is
\* released exactly when the handle is freed and no run holds the token.
C10_FlagOutlivesHandle ==
    /\ [](pc # "aborted" =>
            \A t \in Tokens :
                /\ Holding(t) => (flag[t] \in {"clear", "set"} /\ arcCount[t] >= 1)
                /\ (flag[t] = "freed") <=> (tokenBox[t] = "freed" /\ ~Holding(t))
                /\ arcCount[t] = (IF tokenBox[t] = "alive" THEN 1 ELSE 0)
                                  + (IF Holding(t) THEN 1 ELSE 0))
    /\ [][\A t \in Tokens :
            (Holding(t) /\ tokenBox[t] = "alive" /\ tokenBox'[t] = "freed") =>
                /\ flag'[t] = flag[t] /\ runVars' = runVars
                /\ <<lastEv, prevEv, lateCalls, cpAfterSet, completed>>'
                      = <<lastEv, prevEv, lateCalls, cpAfterSet, completed>>]_vars

\* The handle was freed while the extraction was in progress, and the
\* extraction went on to poll the flag.
C10_Witness ==
    \E t \in Tokens :
        /\ Holding(t) /\ tokenBox[t] = "freed" /\ pc = "cp_call"
        /\ completed >= 1 /\ flag[t] = "clear"

====
